---- MODULE Spec2Model ----
(***************************************************************************)
(* Model of tnex_driver/src/simulator/ego_vehicle.py: the main thread      *)
(* (setup, tick-wait loop, teardown in the finally block, the top-level    *)
(* try/except), the four sensor capture callbacks that the simulator runs  *)
(* on its own threads, and the frame conversion get_cv_image.              *)
(*                                                                         *)
(* The simulator (carla), the message bus (rospy) and the message bridge   *)
(* (cv_bridge) are external: where one of their calls can raise, the model *)
(* takes both outcomes.  A KeyboardInterrupt is asynchronous: it is raised *)
(* in the main thread between any two of its steps, including between the  *)
(* return of a call and the store of its result.                           *)
(***************************************************************************)
EXTENDS Integers, Sequences, FiniteSets, TLC

\* Model-sized capture resolution (the program asks for 720 x 480).
FrameHeight == 1
FrameWidth == 1
\* The number of captures the simulator delivers in a run.
MaxCaptures == 2
\* Bounds of the raw buffers handed to publish_image in the conversion harness.
MaxBuf == 17
MaxDim == 3

\* First bytes of the harness buffers; byte k of a buffer is (first + k) % 256.
FirstBytes == {0, 100, 250}

Sensors == {"camera_main_rgb", "camera_main_semantic_segmentation",
            "camera_main_depth", "camera_3pv_rgb"}
Actors == {"ego_vehicle"} \cup Sensors

\* The order of the spawn_actor statements.
SpawnOrder == <<"ego_vehicle", "camera_main_rgb", "camera_main_semantic_segmentation",
                "camera_main_depth", "camera_3pv_rgb">>
\* The order of the listen statements.
ListenOrder == <<"camera_main_rgb", "camera_main_semantic_segmentation",
                 "camera_main_depth", "camera_3pv_rgb">>
\* The order of the destroy statements of the finally block.
DestroyOrder == <<"ego_vehicle", "camera_main_rgb", "camera_main_semantic_segmentation",
                  "camera_main_depth", "camera_3pv_rgb">>

IndexOf(seq, x) == CHOOSE i \in 1..Len(seq) : seq[i] = x

VARIABLES
    pc,            \* position of the main thread: [op, arg]
    exc,           \* the exception propagating in the main thread, or "none"
    local,         \* main()'s five local variables: TRUE when bound to an actor
    spawned,       \* actors the simulator has created
    alive,         \* actors that exist in the simulator now
    destroyCalls,  \* per actor, the number of destroy() calls made on it
    listening,     \* sensors with a capture callback registered
    trigger,       \* what made the main thread leave the try body, and where
    tdAbort,       \* what cut the finally block short, or "none"
    outcome,       \* "running", or how the process ended: "clean" / "error"
    cb,            \* per sensor, the state of its capture callback
    chan           \* per topic, counts of publish_image calls, Publisher
                   \* objects created and publish() calls since the start

vars == <<pc, exc, local, spawned, alive, destroyCalls, listening, trigger,
          tdAbort, outcome, cb, chan>>

mainVars == <<pc, exc, local, spawned, alive, destroyCalls, listening, trigger,
              tdAbort, outcome>>

At(op) == [op |-> op, arg |-> "-"]
AtA(op, a) == [op |-> op, arg |-> a]

\* Positions inside the try body and inside the finally block of main().
SetupOps == {"get_world", "find_vehicle", "spawn_point", "spawn", "store",
             "set_autopilot", "camera_blueprints", "loginfo_spawned", "listen"}
TryOps == SetupOps \cup {"wait_for_tick"}
FinallyOps == {"destroy", "loginfo_destroyed"}

FinallyStart == AtA("destroy", DestroyOrder[1])

(***************************************************************************)
(* Frames and the frame conversion                                         *)
(***************************************************************************)

\* What the simulator hands to a capture callback: raw_data holds
\* height * width * 4 bytes (BGRA), layout says which in-place colour
\* conversion the frame has undergone.
CarlaFrame ==
    [raw_data |-> [k \in 1..(FrameHeight * FrameWidth * 4) |-> (k * 37) % 256],
     height |-> FrameHeight, width |-> FrameWidth, layout |-> "raw"]

NoFrame == [raw_data |-> <<>>, height |-> 0, width |-> 0, layout |-> "-"]

\* np.reshape(buf, (h, w, c)) with silent truncation or zero padding instead of
\* the size check.
np_reshape_lenient(buf, h, w, c) ==
    [err |-> "none",
     image |-> [i \in 1..h |-> [j \in 1..w |-> [k \in 1..c |->
                   LET n == ((i - 1) * w + (j - 1)) * c + k
                   IN  IF n <= Len(buf) THEN buf[n] ELSE 0]]]]

\* np.reshape(buf, (h, w, c)): row-major; a size mismatch raises ValueError.
np_reshape(buf, h, w, c) ==
    IF Len(buf) # h * w * c
    THEN [err |-> "ValueError", image |-> <<>>]
    ELSE [err |-> "none",
          image |-> [i \in 1..h |-> [j \in 1..w |-> [k \in 1..c |->
                        buf[((i - 1) * w + (j - 1)) * c + k]]]]]

\* cv_image[:, :, :3]
DropAlpha(img) ==
    [i \in 1..Len(img) |-> [j \in 1..Len(img[i]) |-> SubSeq(img[i][j], 1, 3)]]

\* The channel order left as it is.
KeepChannels(img) == img

\* cv_image[:, :, ::-1]
ReverseChannels(img) ==
    [i \in 1..Len(img) |-> [j \in 1..Len(img[i]) |->
        [k \in 1..Len(img[i][j]) |-> img[i][j][Len(img[i][j]) + 1 - k]]]]

get_cv_image(carla_image) ==
    LET shaped == np_reshape(carla_image.raw_data, carla_image.height,
                             carla_image.width, 4)
    IN  IF shaped.err # "none"
        THEN shaped
        ELSE [err |-> "none", image |-> ReverseChannels(DropAlpha(shaped.image))]

(***************************************************************************)
(* The capture callbacks: publish_image and publish_image_and_viz          *)
(***************************************************************************)

\* image_message before its assignment.
Unbound == [bound |-> FALSE, encoding |-> "-", image |-> <<>>, layout |-> "-"]

IdleCallback ==
    [pc |-> "idle", phase |-> "-", frame |-> NoFrame, msg |-> Unbound,
     calls |-> <<>>, logged |-> <<>>, result |-> "none"]

\* Every sensor wired to publish_image_and_viz.
HandlerAllViz(s) == "publish_image_and_viz"

\* The callback each listen statement registers, with its arguments.
Handler(s) ==
    IF s \in {"camera_main_semantic_segmentation", "camera_main_depth"}
    THEN "publish_image_and_viz" ELSE "publish_image"

Topic(s) == s

CameraType(s) ==
    CASE s = "camera_main_semantic_segmentation" -> "semantic_segmentation"
      [] s = "camera_main_depth" -> "depth"
      [] OTHER -> "rgb"

\* Every publish_image call given the _viz topic.
CurrentTopicAlwaysViz(s) == Topic(s) \o "_viz"

\* The topic argument of the publish_image call in progress.
CurrentTopic(s) ==
    IF cb[s].phase = "viz" THEN Topic(s) \o "_viz" ELSE Topic(s)

\* Every topic a publish_image call can be given.
Topics == {Topic(s) : s \in Sensors} \cup {Topic(s) \o "_viz" : s \in Sensors}

NoStats == [calls |-> 0, handles |-> 0, publishes |-> 0]

RECURSIVE BaseCalls(_)
BaseCalls(S) ==
    IF S = {} THEN 0
    ELSE LET s == CHOOSE x \in S : TRUE
         IN  chan[Topic(s)].calls + BaseCalls(S \ {s})

\* The captures delivered so far: each starts one publish_image call on the
\* sensor's base topic.
Delivered == BaseCalls(Sensors)

\* The main thread is in or past the finally block of main().
InTeardown == pc.op \in FinallyOps \cup {"toplevel", "exited"}

\* A capture is delivered to the callback registered on sensor s.  The
\* simulator delivers frames of a sensor one at a time, only while the sensor
\* exists and the process runs.  The callback starts publish_image on the
\* base topic.
Deliver(s) ==
    /\ outcome = "running"
    /\ s \in listening
    /\ s \in alive
    /\ cb[s].pc \in {"idle", "ret"}
    /\ Delivered < MaxCaptures
    /\ cb' = [cb EXCEPT ![s] = [IdleCallback EXCEPT !.pc = "convert",
                                                    !.phase = "base",
                                                    !.frame = CarlaFrame]]
    /\ chan' = [chan EXCEPT ![Topic(s)].calls = @ + 1]
    /\ UNCHANGED mainVars

\* publish_image, first try block: get_cv_image and cv_bridge.cv2_to_imgmsg.
\* Only CvBridgeError is caught (and logged); a ValueError of the reshape
\* leaves publish_image and the callback.
Convert(s) ==
    /\ outcome = "running"
    /\ cb[s].pc = "convert"
    /\ LET r == get_cv_image(cb[s].frame)
       IN  IF r.err # "none"
           THEN cb' = [cb EXCEPT ![s].pc = "ret", ![s].result = r.err]
           ELSE \/ cb' = [cb EXCEPT ![s].pc = "publish",
                                    ![s].msg = [bound |-> TRUE, encoding |-> "rgb8",
                                                image |-> r.image,
                                                layout |-> cb[s].frame.layout]]
                \/ cb' = [cb EXCEPT ![s].pc = "publish",
                                    ![s].logged = Append(@, "CvBridgeError")]
    /\ UNCHANGED <<mainVars, chan>>

\* publish_image_and_viz without its second half: the callback returns after
\* the first publish_image call.
AfterPublishImageNoViz(s, c) ==
    [c EXCEPT !.pc = "ret", !.result = "returned"]

\* Where control goes when a publish_image call returns.
AfterPublishImage(s, c) ==
    IF Handler(s) = "publish_image_and_viz" /\ c.phase = "base"
    THEN [c EXCEPT !.pc = "colorize"]
    ELSE [c EXCEPT !.pc = "ret", !.result = "returned"]

\* A ROSInterruptException that no except clause catches: it leaves
\* publish_image and the callback.
PublishInterruptedUncaught(s, c) ==
    [c EXCEPT !.pc = "ret", !.result = "ROSInterruptException"]

\* except rospy.ROSInterruptException: logerr -- publish_image then returns.
PublishInterrupted(s, c) ==
    AfterPublishImage(s, [c EXCEPT !.logged = Append(@, "ROSInterruptException")])

\* A second publish() of the same message in one publish_image call.
PublisherUsedTwice(st, published) ==
    [st EXCEPT !.handles = @ + 1,
               !.publishes = @ + (IF published THEN 2 ELSE 0)]

\* The topic's counts after the second try block: rospy.Publisher(...) has
\* built a Publisher object, and publish() was called on it when
\* image_message could be read.
PublisherUsed(st, published) ==
    [st EXCEPT !.handles = @ + 1,
               !.publishes = @ + (IF published THEN 1 ELSE 0)]

\* The record of one publish() call.
PublishCall(s, raised) ==
    [topic |-> CurrentTopic(s), msg |-> cb[s].msg, raised |-> raised,
     td |-> InTeardown]

\* publish_image, second try block: rospy.Publisher(...) and publish.  Reading
\* the unassigned image_message raises UnboundLocalError, which is not caught;
\* ROSInterruptException is caught and logged.
Publish(s) ==
    /\ outcome = "running"
    /\ cb[s].pc = "publish"
    /\ IF ~cb[s].msg.bound
       THEN cb' = [cb EXCEPT ![s].pc = "ret", ![s].result = "UnboundLocalError"]
       ELSE \/ cb' = [cb EXCEPT ![s] = AfterPublishImage(s,
                         [cb[s] EXCEPT !.calls = Append(@, PublishCall(s, FALSE))])]
            \/ cb' = [cb EXCEPT ![s] = PublishInterrupted(s,
                         [cb[s] EXCEPT !.calls = Append(@, PublishCall(s, TRUE))])]
    /\ chan' = [chan EXCEPT ![CurrentTopic(s)] = PublisherUsed(@, cb[s].msg.bound)]
    /\ UNCHANGED mainVars

\* carla_image.convert(...) by camera type: the frame is changed in place.
ColorConvert(camera_type, frame) ==
    IF camera_type = "semantic_segmentation"
    THEN [frame EXCEPT !.layout = "CityScapesPalette"]
    ELSE IF camera_type = "depth"
         THEN [frame EXCEPT !.layout = "Depth"]
         ELSE frame

\* publish_image_and_viz between its two publish_image calls: the colour
\* conversion, then publish_image is called on the _viz topic.
Colorize(s) ==
    /\ outcome = "running"
    /\ cb[s].pc = "colorize"
    /\ cb' = [cb EXCEPT ![s].frame = ColorConvert(CameraType(s), @),
                        ![s].phase = "viz",
                        ![s].msg = Unbound,
                        ![s].pc = "convert"]
    /\ chan' = [chan EXCEPT ![Topic(s) \o "_viz"].calls = @ + 1]
    /\ UNCHANGED mainVars

(***************************************************************************)
(* The main thread: main() and the top-level try                           *)
(***************************************************************************)

\* An exception raised inside the try body of main(): control enters finally.
RaiseInTry(e, why) ==
    /\ exc' = e
    /\ trigger' = [why |-> why, at |-> pc]
    /\ pc' = FinallyStart

\* carla.Client(...), set_timeout, client.get_world()
GetWorld ==
    /\ pc = At("get_world")
    /\ \/ pc' = At("find_vehicle") /\ UNCHANGED <<exc, trigger>>
       \/ RaiseInTry("RuntimeError", "setup_error")
    /\ UNCHANGED <<local, spawned, alive, destroyCalls, listening, tdAbort, outcome, cb, chan>>

\* get_blueprint_library, find(vehicle blueprint), its attributes
FindVehicle ==
    /\ pc = At("find_vehicle")
    /\ \/ pc' = At("spawn_point") /\ UNCHANGED <<exc, trigger>>
       \/ RaiseInTry("IndexError", "setup_error")
    /\ UNCHANGED <<local, spawned, alive, destroyCalls, listening, tdAbort, outcome, cb, chan>>

\* random.choice(world.get_map().get_spawn_points()): IndexError on no points
SpawnPoint ==
    /\ pc = At("spawn_point")
    /\ \/ pc' = AtA("spawn", SpawnOrder[1]) /\ UNCHANGED <<exc, trigger>>
       \/ RaiseInTry("IndexError", "setup_error")
    /\ UNCHANGED <<local, spawned, alive, destroyCalls, listening, tdAbort, outcome, cb, chan>>

\* world.spawn_actor(...): the call, before its result is stored.
SpawnCall ==
    /\ pc.op = "spawn"
    /\ \/ /\ spawned' = spawned \cup {pc.arg}
          /\ alive' = alive \cup {pc.arg}
          /\ pc' = AtA("store", pc.arg)
          /\ UNCHANGED <<exc, trigger>>
       \/ /\ RaiseInTry("RuntimeError", "setup_error")
          /\ UNCHANGED <<spawned, alive>>
    /\ UNCHANGED <<local, destroyCalls, listening, tdAbort, outcome, cb, chan>>

\* Callbacks registered as soon as the first sensor is assigned.
AfterStoreEarlyListen(a) ==
    IF a = "ego_vehicle" THEN At("set_autopilot")
    ELSE At("loginfo_spawned")

\* The position after the assignment of actor a.
AfterStore(a) ==
    IF a = "ego_vehicle" THEN At("set_autopilot")
    ELSE IF IndexOf(SpawnOrder, a) = Len(SpawnOrder) THEN At("loginfo_spawned")
    ELSE AtA("spawn", SpawnOrder[IndexOf(SpawnOrder, a) + 1])

\* The assignment of spawn_actor's result to the local variable.
Store ==
    /\ pc.op = "store"
    /\ local' = [local EXCEPT ![pc.arg] = TRUE]
    /\ pc' = AfterStore(pc.arg)
    /\ UNCHANGED <<exc, spawned, alive, destroyCalls, listening, trigger, tdAbort,
                   outcome, cb, chan>>

\* ego_vehicle.set_autopilot(False)
SetAutopilot ==
    /\ pc = At("set_autopilot")
    /\ pc' = At("camera_blueprints")
    /\ UNCHANGED <<exc, local, spawned, alive, destroyCalls, listening, trigger,
                   tdAbort, outcome, cb, chan>>

\* create_camera_blueprint x 4 (blueprint_library.find) and the transforms
CameraBlueprints ==
    /\ pc = At("camera_blueprints")
    /\ \/ pc' = AtA("spawn", SpawnOrder[2]) /\ UNCHANGED <<exc, trigger>>
       \/ RaiseInTry("IndexError", "setup_error")
    /\ UNCHANGED <<local, spawned, alive, destroyCalls, listening, tdAbort, outcome, cb, chan>>

\* rospy.loginfo('Ego vehicle and sensors spawned')
LogSpawned ==
    /\ pc = At("loginfo_spawned")
    /\ pc' = AtA("listen", ListenOrder[1])
    /\ UNCHANGED <<exc, local, spawned, alive, destroyCalls, listening, trigger,
                   tdAbort, outcome, cb, chan>>

\* A listen after which the loop is entered at once, whatever sensors are left.
ListenOnce ==
    /\ pc.op = "listen"
    /\ listening' = listening \cup {pc.arg}
    /\ pc' = At("wait_for_tick")
    /\ UNCHANGED <<exc, local, spawned, alive, destroyCalls, trigger, tdAbort,
                   outcome, cb, chan>>

\* <sensor>.listen(lambda ...)
Listen ==
    /\ pc.op = "listen"
    /\ listening' = listening \cup {pc.arg}
    /\ pc' = IF IndexOf(ListenOrder, pc.arg) = Len(ListenOrder)
             THEN At("wait_for_tick")
             ELSE AtA("listen", ListenOrder[IndexOf(ListenOrder, pc.arg) + 1])
    /\ UNCHANGED <<exc, local, spawned, alive, destroyCalls, trigger, tdAbort,
                   outcome, cb, chan>>

\* A loop with an exit of its own: after a tick the loop may end and control
\* falls into the finally block with no exception pending.
WaitForTickOrLeave ==
    /\ pc = At("wait_for_tick")
    /\ \/ pc' = At("wait_for_tick") /\ UNCHANGED <<exc, trigger>>
       \/ RaiseInTry("RuntimeError", "tick_error")
       \/ pc' = FinallyStart /\ UNCHANGED <<exc, trigger>>
    /\ UNCHANGED <<local, spawned, alive, destroyCalls, listening, tdAbort, outcome, cb, chan>>

\* while True: world.wait_for_tick() -- a tick arrives, or the call raises.
WaitForTick ==
    /\ pc = At("wait_for_tick")
    /\ \/ pc' = At("wait_for_tick") /\ UNCHANGED <<exc, trigger>>
       \/ RaiseInTry("RuntimeError", "tick_error")
    /\ UNCHANGED <<local, spawned, alive, destroyCalls, listening, tdAbort, outcome, cb, chan>>

\* The position after the destroy statement of actor a.
AfterDestroy(a) ==
    IF IndexOf(DestroyOrder, a) = Len(DestroyOrder) THEN At("loginfo_destroyed")
    ELSE AtA("destroy", DestroyOrder[IndexOf(DestroyOrder, a) + 1])

\* Whether the finally block calls destroy() on actor a.
DestroyGuard(a) == local[a]

\* finally: if <actor> is not None: <actor>.destroy().  A destroy() that
\* raises leaves the finally block: the statements after it are not run.
Destroy ==
    /\ pc.op = "destroy"
    /\ IF ~DestroyGuard(pc.arg)
       THEN /\ pc' = AfterDestroy(pc.arg)
            /\ UNCHANGED <<exc, alive, destroyCalls, tdAbort>>
       ELSE /\ destroyCalls' = [destroyCalls EXCEPT ![pc.arg] = @ + 1]
            /\ \/ /\ alive' = alive \ {pc.arg}
                  /\ pc' = AfterDestroy(pc.arg)
                  /\ UNCHANGED <<exc, tdAbort>>
               \/ /\ exc' = "RuntimeError"
                  /\ tdAbort' = "destroy_raised"
                  /\ pc' = At("toplevel")
                  /\ UNCHANGED alive
    /\ UNCHANGED <<local, spawned, listening, trigger, outcome, cb, chan>>

\* rospy.loginfo('Ego vehicle and sensors destroyed'); the pending exception
\* then leaves main().
LogDestroyed ==
    /\ pc = At("loginfo_destroyed")
    /\ pc' = At("toplevel")
    /\ UNCHANGED <<exc, local, spawned, alive, destroyCalls, listening, trigger,
                   tdAbort, outcome, cb, chan>>

\* A bare except at the top level: every exception suppressed.
SuppressedAll(e) == TRUE

\* Whether the top-level try suppresses exception e.
Suppressed(e) == e \in {"none", "KeyboardInterrupt"}

\* __main__: except KeyboardInterrupt: pass; finally: print
TopLevel ==
    /\ pc = At("toplevel")
    /\ outcome' = IF Suppressed(exc) THEN "clean" ELSE "error"
    /\ pc' = At("exited")
    /\ UNCHANGED <<exc, local, spawned, alive, destroyCalls, listening, trigger,
                   tdAbort, cb, chan>>

\* A KeyboardInterrupt raised in the main thread before its next step: in the
\* try body it enters the finally block, in the finally block it leaves main().
Interrupt ==
    /\ pc.op \in TryOps \cup FinallyOps
    /\ exc' = "KeyboardInterrupt"
    /\ IF pc.op \in TryOps
       THEN /\ pc' = FinallyStart
            /\ trigger' = [why |-> IF pc.op = "wait_for_tick" THEN "interrupt_loop"
                                    ELSE "interrupt_setup",
                            at |-> pc]
            /\ UNCHANGED tdAbort
       ELSE /\ pc' = At("toplevel")
            /\ tdAbort' = "interrupt"
            /\ UNCHANGED trigger
    /\ UNCHANGED <<local, spawned, alive, destroyCalls, listening, outcome, cb, chan>>

(***************************************************************************)
(* Specifications                                                          *)
(***************************************************************************)

InitMain ==
    /\ exc = "none"
    /\ local = [a \in Actors |-> FALSE]
    /\ spawned = {}
    /\ alive = {}
    /\ destroyCalls = [a \in Actors |-> 0]
    /\ listening = {}
    /\ trigger = [why |-> "none", at |-> At("-")]
    /\ tdAbort = "none"
    /\ outcome = "running"

Init ==
    /\ InitMain
    /\ pc = At("get_world")
    /\ cb = [s \in Sensors |-> IdleCallback]
    /\ chan = [c \in Topics |-> NoStats]

Next ==
    \/ GetWorld
    \/ FindVehicle
    \/ SpawnPoint
    \/ SpawnCall
    \/ Store
    \/ SetAutopilot
    \/ CameraBlueprints
    \/ LogSpawned
    \/ Listen
    \/ WaitForTick
    \/ Destroy
    \/ LogDestroyed
    \/ TopLevel
    \/ Interrupt
    \/ \E s \in Sensors : Deliver(s)
    \/ \E s \in Sensors : Convert(s)
    \/ \E s \in Sensors : Publish(s)
    \/ \E s \in Sensors : Colorize(s)

Spec == Init /\ [][Next]_vars

\* The raw buffers and sizes publish_image is exercised on.
RawBuffers == {[k \in 1..n |-> (o + k) % 256] : n \in 0..MaxBuf, o \in FirstBytes}

HarnessFrames ==
    {[raw_data |-> b, height |-> h, width |-> w, layout |-> "raw"] :
        b \in RawBuffers, h \in 0..MaxDim, w \in 0..MaxDim}

\* One callback is handed an arbitrary buffer with arbitrary sizes; the main
\* thread does not move.
InitConv ==
    /\ InitMain
    /\ pc = At("harness")
    /\ \E s \in Sensors : \E f \in HarnessFrames :
          /\ cb = [t \in Sensors |->
                      IF t = s THEN [IdleCallback EXCEPT !.pc = "convert",
                                                         !.phase = "base",
                                                         !.frame = f]
                      ELSE IdleCallback]
          /\ chan = [c \in Topics |->
                        IF c = Topic(s) THEN [NoStats EXCEPT !.calls = 1]
                        ELSE NoStats]

NextConv ==
    \/ \E s \in Sensors : Convert(s)
    \/ \E s \in Sensors : Publish(s)
    \/ \E s \in Sensors : Colorize(s)

SpecConv == InitConv /\ [][NextConv]_vars

(***************************************************************************)
(* Properties                                                              *)
(***************************************************************************)

Exited == pc = At("exited")

\* C1: on every exit path of main() on which no destroy() raises and no
\* interrupt arrives inside the finally block, every actor the simulator
\* spawned has had destroy() called on it exactly once and none is left alive.
\* Fails: a KeyboardInterrupt raised after a spawn_actor call has returned and
\* before its result is assigned leaves the local variable None, and the
\* finally block skips the actor.
C1_EverySpawnedActorDestroyedOnce ==
    (Exited /\ tdAbort = "none") =>
        \A a \in Actors :
            /\ destroyCalls[a] <= 1
            /\ a \in spawned => (destroyCalls[a] = 1 /\ a \notin alive)

\* The setup failed because the spawn_actor call of a sensor raised.
SensorSpawnFailed ==
    /\ trigger.why = "setup_error"
    /\ trigger.at.op = "spawn"
    /\ trigger.at.arg \in Sensors

\* C2: after a sensor's spawn_actor call raised, teardown calls destroy() on
\* exactly the vehicle and the sensors spawned before it, and on none of the
\* unset ones.  Stated for the runs without an interrupt in the finally block.
\* Fails: a destroy() that raises ends the finally block (see C3), and the
\* actors after it in the block are never destroyed.
C2_PartialSetupTeardownExact ==
    (Exited /\ SensorSpawnFailed /\ tdAbort # "interrupt") =>
        \A a \in Actors : destroyCalls[a] = IF a \in spawned THEN 1 ELSE 0

\* C3: when a destroy() raised during teardown, destroy() has still been
\* attempted on every actor that was spawned, by the time main() is left.
\* Fails: the exception leaves the finally block at once.
C3_TeardownBestEffort ==
    (pc.op \in {"toplevel", "exited"} /\ tdAbort = "destroy_raised") =>
        \A a \in Actors : local[a] => destroyCalls[a] >= 1

\* The conversion of a frame to a message failed in this callback run.
ConversionFailed(s) ==
    \E i \in 1..Len(cb[s].logged) : cb[s].logged[i] = "CvBridgeError"

\* C4: a capture callback in which the message conversion failed (a logged
\* CvBridgeError) returns normally, and a publish_image callback has then made
\* no publish call for the frame.
\* Fails: after the error is logged, publish_image goes on to publish the
\* unassigned image_message; the UnboundLocalError is not caught and leaves
\* the callback.
C4_ConversionFailureContained ==
    \A s \in Sensors :
        (cb[s].pc = "ret" /\ ConversionFailed(s)) =>
            /\ cb[s].result = "returned"
            /\ Handler(s) = "publish_image" => cb[s].calls = <<>>

\* The sensors whose frames are colour-converted for viewing.
ColorizedSensors ==
    {s \in Sensors : CameraType(s) \in {"semantic_segmentation", "depth"}}

RgbSensors == {s \in Sensors : CameraType(s) = "rgb"}

VizLayout(s) ==
    IF CameraType(s) = "semantic_segmentation" THEN "CityScapesPalette" ELSE "Depth"

\* The callback run of sensor s has made exactly two publish calls: the frame
\* as captured on the base channel, then the colour-converted frame on _viz.
TwoPublishesInOrder(s) ==
    /\ Len(cb[s].calls) = 2
    /\ cb[s].calls[1].topic = Topic(s)
    /\ cb[s].calls[1].msg.layout = "raw"
    /\ cb[s].calls[2].topic = Topic(s) \o "_viz"
    /\ cb[s].calls[2].msg.layout = VizLayout(s)

\* C5 as stated: every finished capture callback of a segmentation or depth
\* sensor has made exactly the two publish calls, base then _viz.
\* Fails when a message conversion fails: the callback ends with fewer.
C5_EveryCaptureTwoPublishes ==
    \A s \in ColorizedSensors : cb[s].pc = "ret" => TwoPublishesInOrder(s)

\* C5 amended: a finished capture callback of a segmentation or depth sensor
\* in which no message conversion failed has made exactly the two publish
\* calls, base (frame as captured) then _viz (colour-converted frame); no
\* callback run makes more than two publish calls, and whenever the frame has
\* been colour-converted the base-channel publish call of the frame as
\* captured has already been made.
C5_TwoPublishesUnlessConversionFails ==
    \A s \in ColorizedSensors :
        /\ (cb[s].pc = "ret" /\ ~ConversionFailed(s)) => TwoPublishesInOrder(s)
        /\ Len(cb[s].calls) <= 2
        /\ cb[s].frame.layout \notin {"raw", "-"} =>
              /\ cb[s].frame.layout = VizLayout(s)
              /\ Len(cb[s].calls) >= 1
              /\ cb[s].calls[1].topic = Topic(s)
              /\ cb[s].calls[1].msg.layout = "raw"

C5_Witness ==
    \E s \in ColorizedSensors :
        /\ cb[s].pc = "ret"
        /\ TwoPublishesInOrder(s)
        /\ ~cb[s].calls[1].raised
        /\ ~cb[s].calls[2].raised

\* C6 as stated: every finished capture callback of an rgb sensor has made
\* exactly one publish call, on the base channel.
\* Fails when the message conversion fails: no publish call is made.
C6_EveryCaptureOnePublish ==
    \A s \in RgbSensors :
        cb[s].pc = "ret" => (Len(cb[s].calls) = 1 /\ cb[s].calls[1].topic = Topic(s))

\* C6 amended: a finished capture callback of an rgb sensor in which the
\* message conversion did not fail has made exactly one publish call; an rgb
\* sensor's callback never makes more than one publish call, never publishes
\* on another channel than its base channel (so never on _viz), and never
\* colour-converts the frame.
C6_OnePublishUnlessConversionFails ==
    \A s \in RgbSensors :
        /\ (cb[s].pc = "ret" /\ ~ConversionFailed(s)) => Len(cb[s].calls) = 1
        /\ Len(cb[s].calls) <= 1
        /\ \A i \in 1..Len(cb[s].calls) : cb[s].calls[i].topic = Topic(s)
        /\ cb[s].frame.layout \in {"raw", "-"}

C6_Witness ==
    \E s \in RgbSensors :
        /\ cb[s].pc = "ret"
        /\ cb[s].result = "returned"
        /\ Len(cb[s].calls) = 1
        /\ ~cb[s].calls[1].raised

\* The raw buffer of frame f has the length its sizes ask for.
ValidBuffer(f) == Len(f.raw_data) = f.height * f.width * 4

\* Pixel (i, j) of the converted image of frame f: bytes 2, 1, 0 of the
\* row-major BGRA pixel at that position.
ExpectedPixel(f, i, j) ==
    LET p == ((i - 1) * f.width + (j - 1)) * 4
    IN  <<f.raw_data[p + 3], f.raw_data[p + 2], f.raw_data[p + 1]>>

\* C7: for a raw buffer of length h*w*4, get_cv_image does not fail and the
\* image it returns (carried by the message built from it) has h rows of w
\* pixels of 3 bytes, pixel (i, j) being input bytes 2, 1, 0 of pixel (i, j):
\* the alpha byte removed, the other three reversed, positions unchanged.
C7_ConversionDropsAlphaReversesChannels ==
    \A s \in Sensors :
        LET f == cb[s].frame
            img == cb[s].msg.image
        IN  ValidBuffer(f) =>
              /\ cb[s].result # "ValueError"
              /\ cb[s].msg.bound =>
                    /\ Len(img) = f.height
                    /\ \A i \in 1..f.height :
                          /\ Len(img[i]) = f.width
                          /\ \A j \in 1..f.width : img[i][j] = ExpectedPixel(f, i, j)

C7_Witness ==
    \E s \in Sensors :
        /\ cb[s].msg.bound
        /\ cb[s].frame.height = 2
        /\ cb[s].frame.width = 2
        /\ cb[s].msg.image[2][1] = ExpectedPixel(cb[s].frame, 2, 1)

\* C8: for a raw buffer whose length differs from h*w*4 the conversion ends in
\* the reshape's ValueError, which leaves the callback: no image message is
\* built and no publish call is made, on the base channel or on _viz.
C8_SizeMismatchRaisesNoPublish ==
    \A s \in Sensors :
        ~ValidBuffer(cb[s].frame) =>
            /\ ~cb[s].msg.bound
            /\ cb[s].calls = <<>>
            /\ cb[s].pc # "convert" => (cb[s].pc = "ret" /\ cb[s].result = "ValueError")

C8_Witness ==
    \E s \in Sensors :
        /\ cb[s].pc = "ret"
        /\ cb[s].result = "ValueError"
        /\ cb[s].frame.height * cb[s].frame.width > 0
        /\ Len(cb[s].frame.raw_data) > cb[s].frame.height * cb[s].frame.width * 4

\* C9: after an interrupt in the tick-wait loop (and none inside the finally
\* block) the process ends with every bound actor destroyed and a clean outcome.
\* Fails: a destroy() that raises ends the finally block (see C3); its
\* RuntimeError replaces the KeyboardInterrupt and is not suppressed.
C9_InterruptInLoopEndsClean ==
    (Exited /\ trigger.why = "interrupt_loop" /\ tdAbort # "interrupt") =>
        /\ outcome = "clean"
        /\ \A a \in Actors : local[a] => destroyCalls[a] = 1

C11_SensorsDestroyedBeforeVehicle ==
    destroyCalls["ego_vehicle"] >= 1 =>
        \A s \in Sensors : local[s] => destroyCalls[s] >= 1

\* The six channels the program publishes on.
SixChannels ==
    {"camera_main_rgb", "camera_main_semantic_segmentation",
     "camera_main_semantic_segmentation_viz", "camera_main_depth",
     "camera_main_depth_viz", "camera_3pv_rgb"}

\* The channels sensor s may publish on: its base channel and, for a depth or
\* segmentation sensor, its _viz channel.
OwnChannels(s) ==
    IF CameraType(s) \in {"semantic_segmentation", "depth"}
    THEN {s, s \o "_viz"} ELSE {s}

\* C12: every publish call made by a capture callback targets one of the six
\* channels, and the callback of sensor s publishes only on that sensor's own
\* base channel and, for depth and segmentation, its own _viz channel.
C12_PublishOnlyOnOwnChannels ==
    \A s \in Sensors : \A i \in 1..Len(cb[s].calls) :
        /\ cb[s].calls[i].topic \in SixChannels
        /\ cb[s].calls[i].topic \in OwnChannels(s)

C12_Witness ==
    /\ cb["camera_main_depth"].pc = "ret"
    /\ Len(cb["camera_main_depth"].calls) = 2
    /\ cb["camera_main_depth"].calls[2].topic = "camera_main_depth_viz"
    /\ Len(cb["camera_3pv_rgb"].calls) = 1
    /\ cb["camera_3pv_rgb"].calls[1].topic = "camera_3pv_rgb"

\* C13: after N calls of publish_image on a topic, at most N publish() calls
\* have been made on it, and a publish_image call that has reached its second
\* try block can always take that step: nothing in it waits for a subscriber.
C13_AtMostOnePublishPerCall ==
    /\ \A c \in Topics : chan[c].publishes <= chan[c].calls
    /\ \A s \in Sensors :
           (outcome = "running" /\ cb[s].pc = "publish") => ENABLED Publish(s)

\* Two publish_image calls on one topic, both published, and two calls on
\* another topic of which one published nothing.
C13_Witness ==
    \E c, d \in Topics :
        /\ chan[c].calls = 2 /\ chan[c].publishes = 2
        /\ chan[d].calls = 2 /\ chan[d].publishes = 1

\* C14: no error raised inside a sensor's capture callback escapes the
\* callback: every callback run that ends has returned normally.
\* Fails: the UnboundLocalError that follows a failed conversion, and the
\* ValueError of a size mismatch, are caught by no except clause of
\* publish_image and leave the callback.
C14_NoErrorEscapesCallback ==
    \A s \in Sensors : cb[s].pc = "ret" => cb[s].result = "returned"

\* What does hold of C14: a step of a callback changes nothing of the main
\* thread and nothing of another sensor's callback.
C14_CallbackStepsAreLocal ==
    [][\A s \in Sensors :
           cb'[s] # cb[s] =>
               /\ UNCHANGED mainVars
               /\ \A t \in Sensors \ {s} : cb'[t] = cb[t]]_vars

\* The session state of the specification, read off the program's state.
SessionState ==
    IF pc.op \notin TryOps THEN "TEARDOWN"
    ELSE IF pc.op = "wait_for_tick" THEN "RUNNING"
    ELSE IF Sensors \subseteq spawned THEN "SENSORS_ATTACHED"
    ELSE IF "ego_vehicle" \in spawned THEN "VEHICLE_SPAWNED"
    ELSE IF pc.op = "get_world" THEN "DISCONNECTED"
    ELSE "CONNECTED"

Rank(st) ==
    CASE st = "DISCONNECTED" -> 1
      [] st = "CONNECTED" -> 2
      [] st = "VEHICLE_SPAWNED" -> 3
      [] st = "SENSORS_ATTACHED" -> 4
      [] st = "RUNNING" -> 5
      [] st = "TEARDOWN" -> 6

\* C15: the session state only stays, moves to the next state of the order
\* DISCONNECTED, CONNECTED, VEHICLE_SPAWNED, SENSORS_ATTACHED, RUNNING,
\* TEARDOWN, or jumps to TEARDOWN; a sensor is spawned only when the vehicle
\* exists, a callback is registered only when all four sensors are spawned,
\* and the tick-wait loop is entered only with a callback on every sensor.
C15_SessionOrder ==
    /\ [](\A s \in Sensors : s \in spawned => local["ego_vehicle"])
    /\ [](listening # {} => \A s \in Sensors : s \in spawned /\ local[s])
    /\ [](pc.op = "wait_for_tick" => listening = Sensors)
    /\ [][\/ Rank(SessionState') = Rank(SessionState)
          \/ Rank(SessionState') = Rank(SessionState) + 1
          \/ SessionState' = "TEARDOWN"]_vars

\* The tick-wait loop is running with a callback on each of the four sensors.
C15_Witness ==
    /\ SessionState = "RUNNING"
    /\ listening = Sensors
    /\ Sensors \subseteq spawned

\* C16: a ROSInterruptException raised by publish() is logged and does not
\* leave publish_image: the callback does not end with that error, a callback
\* without conversion failure returns normally, and publish_image_and_viz
\* still goes on to the colour conversion and the publish_image call on the
\* _viz topic.
C16_PublishInterruptionSwallowed ==
    \A s \in Sensors :
        LET c == cb[s]
            Raised == {i \in 1..Len(c.calls) : c.calls[i].raised}
            Logged == {i \in 1..Len(c.logged) : c.logged[i] = "ROSInterruptException"}
        IN  Raised # {} =>
                /\ Cardinality(Logged) = Cardinality(Raised)
                /\ c.result # "ROSInterruptException"
                /\ (c.pc = "ret" /\ ~ConversionFailed(s)) => c.result = "returned"
                /\ (c.pc = "ret" /\ Handler(s) = "publish_image_and_viz") =>
                       c.phase = "viz"
                /\ (c.pc = "ret" /\ Handler(s) = "publish_image_and_viz"
                        /\ ~ConversionFailed(s)) =>
                       /\ Len(c.calls) = 2
                       /\ c.calls[2].topic = Topic(s) \o "_viz"

\* A depth capture whose first publish was interrupted and whose callback
\* has returned after the publish on the _viz topic.
C16_Witness ==
    LET c == cb["camera_main_depth"]
    IN  /\ c.pc = "ret"
        /\ c.result = "returned"
        /\ Len(c.calls) = 2
        /\ c.calls[1].raised
        /\ c.calls[2].topic = "camera_main_depth_viz"

\* C17: at most one publisher handle is ever created per topic; a later
\* publish on the topic reuses the handle of the first.
\* Fails: every publish_image call constructs a new rospy.Publisher for its
\* topic, so the second capture of a sensor creates a second one.
C17_OnePublisherPerTopic ==
    \A c \in Topics : chan[c].handles <= 1

\* C18: the tick-wait loop is left only for the finally block, and only by an
\* exception of wait_for_tick or an interrupt; so whenever the main thread is
\* past the loop, one of the two is recorded as the reason.
C18_LoopLeftOnlyByRaiseOrInterrupt ==
    /\ [][(pc = At("wait_for_tick") /\ pc' # pc) =>
              /\ pc' = FinallyStart
              /\ exc' \in {"RuntimeError", "KeyboardInterrupt"}
              /\ trigger' \in {[why |-> "tick_error", at |-> pc],
                               [why |-> "interrupt_loop", at |-> pc]}]_vars
    /\ [](pc.op \notin TryOps => trigger.why # "none")

\* The loop was running and has been left by an interrupt; teardown has begun.
C18_Witness ==
    /\ pc = FinallyStart
    /\ trigger = [why |-> "interrupt_loop", at |-> At("wait_for_tick")]
    /\ listening = Sensors

\* C19: a registered callback is never unregistered and no sensor is stopped
\* or destroyed while the main thread is in the try body, and no callback runs
\* or publishes before all four sensors are spawned.  That a callback can
\* publish while the finally block is destroying actors is shown by the
\* reachable state C19_Witness.
C19_CallbacksStayRegistered ==
    /\ [][listening \subseteq listening']_vars
    /\ [](pc.op \in TryOps => alive = spawned)
    /\ [](\A s \in Sensors :
             (cb[s].pc # "idle" \/ chan[Topic(s)].calls > 0) =>
                 Sensors \subseteq spawned)
    /\ [](\A c \in Topics : chan[c].publishes > 0 => Sensors \subseteq spawned)

\* A publish() call made while the finally block is destroying actors, by the
\* callback of a sensor that is still registered.
C19_Witness ==
    /\ pc.op = "destroy"
    /\ \E s \in listening : \E i \in 1..Len(cb[s].calls) : cb[s].calls[i].td

====
